---------------------------- MODULE Spec2Model ----------------------------
(***************************************************************************)
(* Model of mbox_split.py: a Gmail Takeout mbox is split by the            *)
(* X-Gmail-Labels header of each message into one output mbox per bucket.  *)
(*                                                                         *)
(* A Python str is a sequence of one-character strings, <<"C","O","N">>,   *)
(* so that strip, re.sub, replace, split, lower/upper, slicing and `in`    *)
(* are computed character by character as the interpreter computes them.   *)
(***************************************************************************)
EXTENDS Integers, Sequences, FiniteSets, TLC

VARIABLES
    prefix,     \* main: prefix (-p / --prefix)
    src,        \* main: the source mailbox: the X-Gmail-Labels header of each message,
                \* in key order
    key,        \* main: position of `for key in src.iterkeys()`
    boxes,      \* main: the dict boxes, in insertion order: [fn, id, flushed, closed];
                \* flushed and closed tell whether b.flush() / b.close() was called
                \* ("no") and how the call ended ("ok", "raised")
    opened,     \* history: one filename per call of mailbox.mbox(filename, create=True)
    files,      \* the output files: filename -> raw records appended in this run
    n,          \* main: n, the count of routed messages
    progress,   \* number of "messages routed..." lines printed to stderr
    failed,     \* an I/O call of the run has raised
    srcOpen,    \* src has not been closed yet
    pc,         \* position in main: "loop", "flush", "close", "done" ("call" outside a run)
    tpos,       \* position of `for b in boxes.values()` in the finally block
    arg,        \* safe_label called on its own: the argument label
    maxlen,     \* safe_label called on its own: the argument maxlen
    out         \* safe_label called on its own: the results of successive applications

vars == <<prefix, src, key, boxes, opened, files, n, progress, failed, srcOpen,
          pc, tpos, arg, maxlen, out>>

runVars == <<prefix, src, key, boxes, opened, files, n, progress, failed, srcOpen, tpos>>

callVars == <<arg, maxlen, out>>

-----------------------------------------------------------------------------
(* Bounds of the model. *)

\* Number of fragments concatenated into an argument of safe_label.
MaxSanFrags == 3
\* Largest small maxlen passed to safe_label (besides the default).
MaxMaxLen == 5
\* Number of fragments concatenated into an X-Gmail-Labels value.
MaxLabelFrags == 3
\* Number of messages of a short source mailbox.
MaxMsgs == 3
\* Messages of a long source mailbox after the first progress report is due.
MaxTail == 1

(* Program constants. *)

\* def safe_label(label, maxlen: int = 120)
DefaultMaxLen == 120
\* if n % 2000 == 0
ProgressEvery == 2000

-----------------------------------------------------------------------------
(* Characters and str methods. *)

UpperCase == <<"A","B","C","D","E","F","G","H","I","J","K","L","M",
               "N","O","P","Q","R","S","T","U","V","W","X","Y","Z">>

LowerCase == <<"a","b","c","d","e","f","g","h","i","j","k","l","m",
               "n","o","p","q","r","s","t","u","v","w","x","y","z">>

\* str.lower / str.upper on one character
LowerChar(c) ==
    IF \E i \in 1..26 : UpperCase[i] = c
    THEN LowerCase[CHOOSE i \in 1..26 : UpperCase[i] = c]
    ELSE c

UpperChar(c) ==
    IF \E i \in 1..26 : LowerCase[i] = c
    THEN UpperCase[CHOOSE i \in 1..26 : LowerCase[i] = c]
    ELSE c

lower(s) == [i \in 1..Len(s) |-> LowerChar(s[i])]

upper(s) == [i \in 1..Len(s) |-> UpperChar(s[i])]

\* The characters str.strip() removes, among the characters of the model.
Whitespace == {" ", "\t", "\n", "\r", "\f"}

\* The control characters \x00-\x1f that a TLA+ string can spell.
Control == {"\t", "\n", "\r", "\f"}

\* _ILLEGAL = re.compile(r'[<>:"/\\|?*\x00-\x1f]')
ILLEGAL == {"<", ">", ":", "\"", "/", "\\", "|", "?", "*"} \cup Control

\* s.lstrip(chars) / s.rstrip(chars) / s.strip(chars), chars a set of characters
lstrip(s, chars) ==
    LET keep == {i \in 1..Len(s) : s[i] \notin chars}
    IN  IF keep = {} THEN <<>>
        ELSE SubSeq(s, CHOOSE i \in keep : \A j \in keep : i <= j, Len(s))

rstrip(s, chars) ==
    LET keep == {i \in 1..Len(s) : s[i] \notin chars}
    IN  IF keep = {} THEN <<>>
        ELSE SubSeq(s, 1, CHOOSE i \in keep : \A j \in keep : j <= i)

strip(s, chars) == rstrip(lstrip(s, chars), chars)

\* Mutant: _ILLEGAL.sub(".", label, count=1), only the first match is replaced.
SubIllegal_firstOnly(s) ==
    LET bad == {i \in 1..Len(s) : s[i] \in ILLEGAL}
    IN  [i \in 1..Len(s) |-> IF i \in bad /\ (\A j \in bad : i <= j) THEN "." ELSE s[i]]

\* Mutant: _ILLEGAL.sub("", label), the illegal characters are deleted.
SubIllegal_delete(s) == SelectSeq(s, LAMBDA c : c \notin ILLEGAL)

\* _ILLEGAL.sub(".", label)
SubIllegal(s) == [i \in 1..Len(s) |-> IF s[i] \in ILLEGAL THEN "." ELSE s[i]]

\* The characters of s at the positions in keep, in order.
Pick(s, keep) ==
    [r \in 1..Cardinality(keep) |->
        s[CHOOSE i \in keep : Cardinality({j \in keep : j <= i}) = r]]

\* label.replace("..", "."): one pass, left to right, over non-overlapping matches.
\* The scan pairs the periods of each run of periods from the left, (1st, 2nd),
\* (3rd, 4th), ..., and each pair leaves one period: the periods at the even
\* places of their run go.
ReplaceDotDot(s) ==
    LET place(i) == i - (IF \E j \in 1..i : s[j] # "."
                         THEN CHOOSE j \in 1..i : s[j] # "." /\ \A h \in (j + 1)..i : s[h] = "."
                         ELSE 0)
    IN  Pick(s, {i \in 1..Len(s) : s[i] # "." \/ place(i) % 2 = 1})

\* label[:k]
Slice(s, k) == SubSeq(s, 1, IF k < Len(s) THEN k ELSE Len(s))

\* needle in hay
Contains(hay, needle) ==
    \E i \in 1..(Len(hay) - Len(needle) + 1) :
        SubSeq(hay, i, i + Len(needle) - 1) = needle

\* s.split(","): the parts between the commas, in order
RECURSIVE split(_)
split(s) ==
    LET commas == {i \in 1..Len(s) : s[i] = ","}
    IN  IF commas = {} THEN <<s>>
        ELSE LET c == CHOOSE i \in commas : \A j \in commas : i <= j
             IN  <<SubSeq(s, 1, c - 1)>> \o split(SubSeq(s, c + 1, Len(s)))

Digits == <<"1","2","3","4","5","6","7","8","9">>

\* _RESERVED
RESERVED ==
    {<<"C","O","N">>, <<"P","R","N">>, <<"A","U","X">>, <<"N","U","L">>}
    \cup {<<"C","O","M", Digits[i]>> : i \in 1..9}
    \cup {<<"L","P","T", Digits[i]>> : i \in 1..9}

-----------------------------------------------------------------------------
(* safe_label *)

safe_label(label, maxlength) ==
    LET l1 == strip(label, Whitespace)
        l2 == SubIllegal(l1)
        l3 == strip(ReplaceDotDot(l2), {" ", "."})
        l4 == IF l3 = <<>> THEN <<"A","r","c","h","i","v","e">> ELSE l3
        l5 == IF upper(l4) \in RESERVED THEN <<"_">> \o l4 ELSE l4
    IN  IF Len(l5) > maxlength
        THEN rstrip(Slice(l5, maxlength), {" ", "."})
        ELSE l5

-----------------------------------------------------------------------------
(* safe_label called on its own, and on its own result. *)

\* Concatenations of at most k elements of the set of strings F.
RECURSIVE Concats(_, _)
Concats(F, k) ==
    IF k = 0 THEN {<<>>}
    ELSE LET shorter == Concats(F, k - 1)
         IN  shorter \cup {f \o s : f \in F, s \in shorter}

\* k copies of the string s
Rep(s, k) == [i \in 1..(k * Len(s)) |-> s[((i - 1) % Len(s)) + 1]]

SanFragments ==
    {<<"a">>, <<".">>, <<".", ".">>, <<" ">>, <<"/">>, <<"\t">>,
     <<"C","O","N">>, <<"c","o","m","1">>, <<"_">>}

\* Arguments longer than the default maxlen.
LongArgs ==
    {Rep(<<"a">>, 200),
     <<"C","O","N">> \o Rep(<<" ">>, DefaultMaxLen - 3) \o <<"x">>,
     Rep(<<"a", ".">>, DefaultMaxLen \div 2) \o <<"b">>,
     Rep(<<"/">>, DefaultMaxLen + 1)}

CallInit ==
    /\ pc = "call"
    /\ \/ arg \in Concats(SanFragments, MaxSanFrags) /\ maxlen \in 1..MaxMaxLen
       \/ arg \in Concats(SanFragments, MaxSanFrags) \cup LongArgs /\ maxlen = DefaultMaxLen
    /\ out = <<>>
    /\ prefix = <<>> /\ src = <<>> /\ key = 1 /\ boxes = <<>> /\ opened = <<>>
    /\ files = <<>> /\ n = 0 /\ progress = 0 /\ failed = FALSE /\ srcOpen = FALSE
    /\ tpos = 1

\* out.append(safe_label(x, maxlen)), x the previous result or the argument
Sanitize ==
    /\ pc = "call"
    /\ Len(out) < 2
    /\ out' = Append(out, safe_label(IF out = <<>> THEN arg ELSE out[Len(out)], maxlen))
    /\ UNCHANGED <<pc, arg, maxlen>>
    /\ UNCHANGED runVars

CallNext == Sanitize

SpecSanitize == CallInit /\ [][CallNext]_vars

-----------------------------------------------------------------------------
(* main: the routing of one message. *)

Str_spam == <<"s","p","a","m">>
Str_trash == <<"t","r","a","s","h">>
Str_inbox == <<"i","n","b","o","x">>
Str_sent == <<"s","e","n","t">>

\* ignored = {"important", "unread", "starred", "newsletters"}
ignored ==
    {<<"i","m","p","o","r","t","a","n","t">>, <<"u","n","r","e","a","d">>,
     <<"s","t","a","r","r","e","d">>, <<"n","e","w","s","l","e","t","t","e","r","s">>}

\* prefix + name + ".mbox"
FileName(p, name) == p \o name \o <<".","m","b","o","x">>

inbox_fn(p) == FileName(p, <<"I","n","b","o","x">>)
sent_fn(p) == FileName(p, <<"S","e","n","t">>)
archive_fn(p) == FileName(p, <<"A","r","c","h","i","v","e">>)
spam_fn(p) == FileName(p, <<"S","p","a","m">>)
trash_fn(p) == FileName(p, <<"T","r","a","s","h">>)

\* The header value msg.get("X-Gmail-Labels"): <<>> is None, <<s>> is the str s.
None == <<>>
Some(s) == <<s>>

\* Mutant: the loop without the `ll in ignored` test.
RECURSIVE ScanParts_noIgnore(_, _)
ScanParts_noIgnore(p, parts) ==
    IF parts = <<>> THEN archive_fn(p)
    ELSE LET label == strip(Head(parts), Whitespace)
         IN  IF lower(label) = <<>>
             THEN ScanParts_noIgnore(p, Tail(parts))
             ELSE FileName(p, safe_label(label, DefaultMaxLen))

\* The for/continue/break loop over (l.strip() for l in labels.split(",")) and the
\* `if not saved` after it: the file the message is added to.
RECURSIVE ScanParts(_, _)
ScanParts(p, parts) ==
    IF parts = <<>> THEN archive_fn(p)
    ELSE LET label == strip(Head(parts), Whitespace)
             ll == lower(label)
         IN  IF ll \in ignored \/ ll = <<>>
             THEN ScanParts(p, Tail(parts))
             ELSE FileName(p, safe_label(label, DefaultMaxLen))

\* Mutant: the chain tests labels instead of labels_lc.
TargetFile_caseSensitive(p, hdr) ==
    IF hdr = None \/ hdr[1] = <<>> THEN archive_fn(p)
    ELSE IF Contains(hdr[1], Str_spam) THEN spam_fn(p)
    ELSE IF Contains(hdr[1], Str_trash) THEN trash_fn(p)
    ELSE IF Contains(hdr[1], Str_inbox) THEN inbox_fn(p)
    ELSE IF Contains(hdr[1], Str_sent) THEN sent_fn(p)
    ELSE ScanParts(p, split(hdr[1]))

\* The if/elif chain of the loop body: the file the message is added to.
TargetFile(p, hdr) ==
    IF hdr = None \/ hdr[1] = <<>> THEN archive_fn(p)
    ELSE LET labels_lc == lower(hdr[1])
         IN  IF Contains(labels_lc, Str_spam) THEN spam_fn(p)
             ELSE IF Contains(labels_lc, Str_trash) THEN trash_fn(p)
             ELSE IF Contains(labels_lc, Str_inbox) THEN inbox_fn(p)
             ELSE IF Contains(labels_lc, Str_sent) THEN sent_fn(p)
             ELSE ScanParts(p, split(hdr[1]))

\* msg.get("X-Gmail-Labels") of msg = src.get_message(key)
get_labels(mbox, k) == mbox[k]

\* src.get_bytes(key, from_=True): the raw bytes of the message, told apart from
\* those of every other message of the mailbox by its key.
get_bytes(mbox, k) == k

\* filename in boxes
HasBox(bs, filename) == \E i \in 1..Len(bs) : bs[i].fn = filename

\* Mutant: box_for without `if filename not in boxes`: every call opens the file
\* and assigns boxes[filename].
box_for_reopen(filename, bs, log) ==
    LET b == [fn |-> filename, id |-> Len(log) + 1, flushed |-> "no", closed |-> "no"]
    IN  [boxes |-> IF HasBox(bs, filename)
                   THEN [i \in 1..Len(bs) |-> IF bs[i].fn = filename THEN b ELSE bs[i]]
                   ELSE Append(bs, b),
         opened |-> Append(log, filename)]

\* box_for(filename, boxes): the dict and the log of mailbox.mbox(...) calls after it
box_for(filename, bs, log) ==
    IF ~HasBox(bs, filename)
    THEN [boxes |-> Append(bs, [fn |-> filename, id |-> Len(log) + 1,
                                flushed |-> "no", closed |-> "no"]),
          opened |-> Append(log, filename)]
    ELSE [boxes |-> bs, opened |-> log]

\* Mutant: .add(raw) writes at the start of the file instead of appending.
add_overwrite(fs, filename, raw) ==
    IF filename \in DOMAIN fs
    THEN [fs EXCEPT ![filename] = <<raw>>]
    ELSE fs @@ (filename :> <<raw>>)

\* mailbox.mbox(filename, create=True) creates the file; .add(raw) appends to it
add(fs, filename, raw) ==
    IF filename \in DOMAIN fs
    THEN [fs EXCEPT ![filename] = Append(@, raw)]
    ELSE fs @@ (filename :> <<raw>>)

create(fs, filename) ==
    IF filename \in DOMAIN fs THEN fs ELSE fs @@ (filename :> <<>>)

\* The progress lines printed once the message with header hdr is counted as
\* the n1-th: the `if not labels` branch continues before the n % 2000 test.
Report(hdr, n1, printed) ==
    IF hdr = None \/ hdr[1] = <<>> THEN printed
    ELSE IF n1 % ProgressEvery = 0 THEN printed + 1
    ELSE printed

-----------------------------------------------------------------------------
(* main: the loop and the finally block. *)

\* One iteration of `for key in src.iterkeys()` in which nothing raises.
Route ==
    /\ pc = "loop"
    /\ key <= Len(src)
    /\ LET labels == get_labels(src, key)
           raw == get_bytes(src, key)
           fn == TargetFile(prefix, labels)
           b == box_for(fn, boxes, opened)
       IN  /\ boxes' = b.boxes
           /\ opened' = b.opened
           /\ files' = add(files, fn, raw)
           /\ n' = n + 1
           /\ progress' = Report(labels, n + 1, progress)
    /\ key' = key + 1
    /\ UNCHANGED <<prefix, src, failed, srcOpen, pc, tpos>>
    /\ UNCHANGED callVars

\* src.get_message(key) or src.get_bytes(key) raises.
ReadFail ==
    /\ pc = "loop"
    /\ key <= Len(src)
    /\ failed' = TRUE
    /\ pc' = "flush"
    /\ UNCHANGED <<prefix, src, key, boxes, opened, files, n, progress, srcOpen, tpos>>
    /\ UNCHANGED callVars

\* mailbox.mbox(filename, create=True) raises inside box_for.
OpenFail ==
    /\ pc = "loop"
    /\ key <= Len(src)
    /\ ~HasBox(boxes, TargetFile(prefix, get_labels(src, key)))
    /\ failed' = TRUE
    /\ pc' = "flush"
    /\ UNCHANGED <<prefix, src, key, boxes, opened, files, n, progress, srcOpen, tpos>>
    /\ UNCHANGED callVars

\* box_for(...) returns and .add(raw) raises.
AddFail ==
    /\ pc = "loop"
    /\ key <= Len(src)
    /\ LET fn == TargetFile(prefix, get_labels(src, key))
           b == box_for(fn, boxes, opened)
       IN  /\ boxes' = b.boxes
           /\ opened' = b.opened
           /\ files' = create(files, fn)
    /\ failed' = TRUE
    /\ pc' = "flush"
    /\ UNCHANGED <<prefix, src, key, n, progress, srcOpen, tpos>>
    /\ UNCHANGED callVars

\* The keys are exhausted: the try block ends and the finally block starts.
LoopEnd ==
    /\ pc = "loop"
    /\ key > Len(src)
    /\ pc' = "flush"
    /\ UNCHANGED runVars
    /\ UNCHANGED callVars

\* try: b.flush() / except Exception: pass
Flush ==
    /\ pc = "flush"
    /\ tpos <= Len(boxes)
    /\ boxes' = [boxes EXCEPT ![tpos].flushed = "ok"]
    /\ pc' = "close"
    /\ UNCHANGED <<prefix, src, key, opened, files, n, progress, failed, srcOpen, tpos>>
    /\ UNCHANGED callVars

FlushFail ==
    /\ pc = "flush"
    /\ tpos <= Len(boxes)
    /\ boxes' = [boxes EXCEPT ![tpos].flushed = "raised"]
    /\ failed' = TRUE
    /\ pc' = "close"
    /\ UNCHANGED <<prefix, src, key, opened, files, n, progress, srcOpen, tpos>>
    /\ UNCHANGED callVars

\* b.close()
Close ==
    /\ pc = "close"
    /\ boxes' = [boxes EXCEPT ![tpos].closed = "ok"]
    /\ tpos' = tpos + 1
    /\ pc' = "flush"
    /\ UNCHANGED <<prefix, src, key, opened, files, n, progress, failed, srcOpen>>
    /\ UNCHANGED callVars

\* b.close() raises: the call is not inside the try/except of the loop body, so
\* the exception leaves the finally block before the next b and before src.close().
CloseFail ==
    /\ pc = "close"
    /\ boxes' = [boxes EXCEPT ![tpos].closed = "raised"]
    /\ failed' = TRUE
    /\ pc' = "done"
    /\ UNCHANGED <<prefix, src, key, opened, files, n, progress, srcOpen, tpos>>
    /\ UNCHANGED callVars

\* src.close(), after the loop over boxes.values()
SrcClose ==
    /\ pc = "flush"
    /\ tpos > Len(boxes)
    /\ srcOpen' = FALSE
    /\ pc' = "done"
    /\ UNCHANGED <<prefix, src, key, boxes, opened, files, n, progress, failed, tpos>>
    /\ UNCHANGED callVars

\* A run in which no call raises.
NextNoFault == Route \/ LoopEnd \/ Flush \/ Close \/ SrcClose

Next ==
    \/ Route \/ ReadFail \/ OpenFail \/ AddFail \/ LoopEnd
    \/ Flush \/ FlushFail \/ Close \/ CloseFail \/ SrcClose

-----------------------------------------------------------------------------
(* The source mailboxes and prefixes of the runs. *)

\* prefix = "split_" (the default) or -p out_
Prefixes == {<<"s","p","l","i","t","_">>, <<"o","u","t","_">>}

\* The state of main when the try block is entered, for a source mailbox.
RunInit(mbox) ==
    /\ prefix \in Prefixes
    /\ src = mbox
    /\ key = 1 /\ boxes = <<>> /\ opened = <<>> /\ files = <<>>
    /\ n = 0 /\ progress = 0 /\ failed = FALSE /\ srcOpen = TRUE
    /\ pc = "loop" /\ tpos = 1
    /\ arg = <<>> /\ maxlen = 0 /\ out = <<>>

\* Header values of the messages of the short mailboxes.
RunLabels ==
    {None,
     Some(<<"I","n","b","o","x">>),
     Some(<<"W","o","r","k">>),
     Some(<<"A","r","c","h","i","v","e">>),
     Some(<<"S","p","a","m",",","W","o","r","k">>)}

Mailboxes(labels, maxmsgs) ==
    UNION {[1..len -> labels] : len \in 0..maxmsgs}

Init == \E mbox \in Mailboxes(RunLabels, MaxMsgs) : RunInit(mbox)

Spec == Init /\ [][Next]_vars

\* Header values built from fragments of Gmail label lists.
LabelFragments ==
    {<<"S","p">>, <<"a","m">>, <<"T","r","a","s","h">>, <<"I","n","b","o","x">>,
     <<"S","e","n","t">>, <<",">>, <<" ">>, <<"I","m","p","o","r","t","a","n","t">>,
     <<"W","o","r","k">>, <<"/">>}

ClassifyInit ==
    \E hdr \in {None} \cup {Some(s) : s \in Concats(LabelFragments, MaxLabelFrags)} :
        RunInit(<<hdr>>)

\* Runs over a mailbox of one message, for every header value.
SpecClassify == ClassifyInit /\ [][Next]_vars

\* Header values of the messages of the long mailboxes.
LongLabels == {None, Some(<<>>), Some(<<"I","n","b","o","x">>), Some(<<"W","o","r","k">>)}

\* Mailboxes of ProgressEvery + MaxTail messages: the same header on all but
\* the ProgressEvery-th message.
LongInit ==
    \E fill \in LongLabels, at \in LongLabels :
        RunInit([k \in 1..(ProgressEvery + MaxTail) |->
                    IF k = ProgressEvery THEN at ELSE fill])

SpecLongRun == LongInit /\ [][NextNoFault]_vars

-----------------------------------------------------------------------------
(* What the claims speak of. *)

\* The messages the loop has routed.
Routed == 1..(key - 1)

\* The files that hold the raw bytes of message k, and how often they occur.
FilesOf(k) == {f \in DOMAIN files : \E i \in 1..Len(files[f]) : files[f][i] = get_bytes(src, k)}

Copies(k) ==
    Cardinality({<<f, i>> \in UNION {{f} \X (1..Len(files[f])) : f \in DOMAIN files} :
                    files[f][i] = get_bytes(src, k)})

\* The header is present, non-empty and holds none of the four system words.
NoSystemWord(hdr) ==
    /\ hdr # None
    /\ hdr[1] # <<>>
    /\ \A w \in {Str_spam, Str_trash, Str_inbox, Str_sent} : ~Contains(lower(hdr[1]), w)

\* The comma-separated, whitespace-trimmed parts of a label string.
Parts(s) == LET ps == split(s) IN [i \in 1..Len(ps) |-> strip(ps[i], Whitespace)]

\* The positions of the parts that are non-empty and not in the ignore set.
Surviving(s) ==
    {i \in 1..Len(Parts(s)) : Parts(s)[i] # <<>> /\ lower(Parts(s)[i]) \notin ignored}

SystemFiles(p) == {spam_fn(p), trash_fn(p), inbox_fn(p), sent_fn(p)}

\* The raw bytes, in source order, of the messages whose header classifies to file f.
Expected(f) ==
    LET keys == SelectSeq([k \in 1..Len(src) |-> k],
                          LAMBDA k : TargetFile(prefix, src[k]) = f)
    IN  [i \in 1..Len(keys) |-> get_bytes(src, keys[i])]

-----------------------------------------------------------------------------
(* C1: in a run in which nothing raises, each message is appended exactly    *)
(* once, to exactly one file, unchanged, and at the end every output file    *)
(* holds exactly the messages that classify to it, in source order.          *)
C1_EachRecordOnceInOrder ==
    (pc = "done" /\ ~failed) =>
        /\ \A k \in 1..Len(src) : Copies(k) = 1
        /\ DOMAIN files = {TargetFile(prefix, src[k]) : k \in 1..Len(src)}
        /\ \A f \in DOMAIN files : files[f] = Expected(f)

C1_Witness ==
    /\ pc = "done" /\ ~failed
    /\ Cardinality(DOMAIN files) >= 2
    /\ \E f \in DOMAIN files : Len(files[f]) >= 2

(* C2: on every exit path, also when a read, an add, a flush or a close      *)
(* raises, every stream the run opened has been flushed and then closed when *)
(* the run ends.                                                             *)
C2_EveryStreamReleased ==
    (pc = "done") =>
        \A i \in 1..Len(boxes) : boxes[i].flushed # "no" /\ boxes[i].closed # "no"

(* C3: first-match precedence on the lowercased whole label string: absent   *)
(* or empty -> Archive, else "spam" -> Spam, else "trash" -> Trash, else     *)
(* "inbox" -> Inbox, else "sent" -> Sent.                                    *)
C3_SystemPrecedence ==
    \A k \in Routed :
        LET hdr == src[k]
            has(w) == Contains(lower(hdr[1]), w)
        IN  /\ (hdr = None \/ hdr[1] = <<>>) => FilesOf(k) = {archive_fn(prefix)}
            /\ (hdr # None /\ hdr[1] # <<>>) =>
                /\ has(Str_spam) => FilesOf(k) = {spam_fn(prefix)}
                /\ (~has(Str_spam) /\ has(Str_trash)) => FilesOf(k) = {trash_fn(prefix)}
                /\ (~has(Str_spam) /\ ~has(Str_trash) /\ has(Str_inbox))
                       => FilesOf(k) = {inbox_fn(prefix)}
                /\ (~has(Str_spam) /\ ~has(Str_trash) /\ ~has(Str_inbox) /\ has(Str_sent))
                       => FilesOf(k) = {sent_fn(prefix)}

C3_Witness ==
    \E k \in Routed :
        /\ src[k] # None
        /\ Contains(lower(src[k][1]), Str_spam)
        /\ ~Contains(src[k][1], Str_spam)
        /\ Contains(lower(src[k][1]), Str_inbox)
        /\ FilesOf(k) = {spam_fn(prefix)}

(* C4: a non-empty label without a system word goes to the one custom file   *)
(* named by safe_label of the first part, left to right, that is non-empty   *)
(* and not in the ignore set; to Archive when there is no such part.         *)
C4_FirstSurvivingPart ==
    \A k \in Routed :
        LET hdr == src[k] IN
        NoSystemWord(hdr) =>
            LET good == Surviving(hdr[1])
                first == CHOOSE i \in good : \A j \in good : i <= j
            IN  /\ Copies(k) = 1
                /\ IF good = {}
                   THEN FilesOf(k) = {archive_fn(prefix)}
                   ELSE FilesOf(k) =
                          {FileName(prefix, safe_label(Parts(hdr[1])[first], DefaultMaxLen))}

C4_Witness ==
    \E k \in Routed :
        /\ NoSystemWord(src[k])
        /\ \E i, j \in Surviving(src[k][1]) :
               /\ i < j
               /\ safe_label(Parts(src[k][1])[i], DefaultMaxLen)
                    # safe_label(Parts(src[k][1])[j], DefaultMaxLen)
        /\ FilesOf(k) # {}

(* C5: safe_label is idempotent: applied to its own result it returns it.    *)
C5_Idempotent ==
    (Len(out) = 2) => out[2] = out[1]

(* C6: for maxlen >= 1 the result of safe_label is never, compared without   *)
(* case, a reserved device name, also when the result was truncated.         *)
C6_NeverReserved ==
    \A i \in 1..Len(out) : upper(out[i]) \notin RESERVED

(* C7: for maxlen >= 1 the result of safe_label is non-empty, holds no       *)
(* illegal or control character and at most maxlen characters; an argument   *)
(* of more than maxlen legal characters, none a period or whitespace, gives  *)
(* exactly maxlen characters.                                                *)
C7_LegalBoundedNonEmpty ==
    \A i \in 1..Len(out) :
        LET x == IF i = 1 THEN arg ELSE out[i - 1]
            r == out[i]
        IN  /\ r # <<>>
            /\ \A j \in 1..Len(r) : r[j] \notin ILLEGAL
            /\ Len(r) <= maxlen
            /\ (/\ Len(x) > maxlen
                /\ \A j \in 1..Len(x) : x[j] \notin ILLEGAL \cup Whitespace \cup {"."})
                   => Len(r) = maxlen

C7_Witness ==
    /\ Len(out) >= 1
    /\ Len(arg) > maxlen
    /\ \E j \in 1..Len(arg) : arg[j] \in ILLEGAL
    /\ \E j \in 1..Len(arg) : arg[j] \in Control
    /\ Len(out[1]) = maxlen

(* C8: the dict boxes holds one stream per filename: a stream is opened when *)
(* the first message routed to its file is processed and not before, no file *)
(* is opened twice, and no entry is removed or replaced.                     *)
C8_OneStreamPerFile ==
    /\ [](/\ \A i, j \in 1..Len(opened) : opened[i] = opened[j] => i = j
          /\ \A i, j \in 1..Len(boxes) : boxes[i].fn = boxes[j].fn => i = j
          /\ \A i \in 1..Len(boxes) : opened[boxes[i].id] = boxes[i].fn
          /\ \A k \in Routed : HasBox(boxes, TargetFile(prefix, src[k]))
          /\ \A i \in 1..Len(boxes) :
                \E k \in 1..Len(src) :
                    k <= key /\ TargetFile(prefix, src[k]) = boxes[i].fn)
    /\ [][\A i \in 1..Len(boxes) :
              /\ i <= Len(boxes')
              /\ boxes'[i].fn = boxes[i].fn
              /\ boxes'[i].id = boxes[i].id]_vars

C8_Witness ==
    /\ pc = "loop"
    /\ Len(boxes) >= 2
    /\ \E i \in 1..Len(boxes) : Len(files[boxes[i].fn]) >= 2

(* C9: each time the count of processed messages reaches a multiple of 2000  *)
(* one progress line is printed, whatever the label of the message that      *)
(* brought the count there.                                                  *)
C9_ReportEvery2000 ==
    progress = n \div ProgressEvery

(* C10: a message routed by its custom label is never added to the Spam,     *)
(* Trash, Inbox or Sent file: for a label without a system word, no part of  *)
(* it yields one of these four filenames.                                    *)
C10_CustomNeverSystemFile ==
    \A k \in Routed :
        LET hdr == src[k] IN
        NoSystemWord(hdr) =>
            /\ FilesOf(k) \cap SystemFiles(prefix) = {}
            /\ \A i \in 1..Len(Parts(hdr[1])) :
                   FileName(prefix, safe_label(Parts(hdr[1])[i], DefaultMaxLen))
                       \notin SystemFiles(prefix)

C10_Witness ==
    \E k \in Routed :
        /\ NoSystemWord(src[k])
        /\ Surviving(src[k][1]) # {}
        /\ \E j \in 1..Len(src[k][1]) : src[k][1][j] \in ILLEGAL
        /\ FilesOf(k) # {}
        /\ FilesOf(k) \cap (SystemFiles(prefix) \cup {archive_fn(prefix)}) = {}

=============================================================================
